---------------------------- MODULE Spec2Model ----------------------------
(***************************************************************************)
(* CssDeadwood (src/cssdeadwood.py): the dead-selector elimination         *)
(* pipeline.  A CSS file's selectors all start "unused"; the DOM stage     *)
(* removes those that match a node of some HTML document, the grep stage   *)
(* removes those one of whose ids/classes occurs as a whole word in some   *)
(* other source file.                                                      *)
(*                                                                         *)
(* Strings are sequences of one-character strings, so that the two regular *)
(* expressions of the program (REGEX_ID / REGEX_CLASS and the \bword\b     *)
(* search) are computed character by character.                            *)
(***************************************************************************)
EXTENDS Integers, Sequences, FiniteSets, TLC

(***************************************************************************)
(* Bounds of the model.                                                    *)
(***************************************************************************)
MaxCss == 1
MaxHtml == 2
MaxSrc == 2
MaxOrderFiles == 1

(***************************************************************************)
(* Characters.  AlnumChars samples the class [a-zA-Z0-9] of REGEX_ID and   *)
(* REGEX_CLASS; WordChars is \w of the re module (alphanumerics and the    *)
(* underscore), which decides where \b matches.                            *)
(***************************************************************************)
AlnumChars == {"a", "b"}

WordChars == AlnumChars \cup {"_"}

\* ord() of the characters used, for Python's string comparison in sorted().
CharCode(c) ==
    CASE c = " " -> 32
      [] c = "#" -> 35
      [] c = "-" -> 45
      [] c = "." -> 46
      [] c = "_" -> 95
      [] c = "a" -> 97
      [] c = "b" -> 98

(***************************************************************************)
(* Selector texts: "#a", ".b", "#a .b" and "a".                            *)
(***************************************************************************)
SelIdA == <<"#", "a">>

SelClassB == <<".", "b">>

SelCompound == <<"#", "a", " ", ".", "b">>

SelElemA == <<"a">>

SelectorUniverse == {SelIdA, SelClassB, SelCompound, SelElemA}

\* The selectors of the CSS files main is run on.  (The DOM stage never looks
\* into a selector; the grep stage is also run on all of SelectorUniverse.)
CssSelectors == {SelClassB, SelCompound, SelElemA}

(***************************************************************************)
(* The texts a source file may hold: "", "a", "b", "ab", "a_b", "a b".     *)
(***************************************************************************)
ContentUniverse ==
    { <<>>, <<"a">>, <<"b">>, <<"a", "b">>, <<"a", "_", "b">>, <<"a", " ", "b">> }

(***************************************************************************)
(* Files as open() finds them.  ok = FALSE is a file that cannot be opened *)
(* or read: open() / f.read() / cssutils.parseFile raise.                  *)
(* An HTML document is what soup.select does on it for each selector:      *)
(* "match" (a non-empty node list), "none" (an empty list) or "raise".     *)
(***************************************************************************)
Outcome == {"match", "none", "raise"}

HtmlFile ==
    { [ok |-> TRUE, select |-> f] : f \in [SelectorUniverse -> Outcome] }
    \cup { [ok |-> FALSE, select |-> [s \in SelectorUniverse |-> "none"]] }

SrcFile ==
    { [ok |-> TRUE, content |-> c] : c \in ContentUniverse }
    \cup { [ok |-> FALSE, content |-> <<>>] }

CssFile ==
    { [ok |-> TRUE, selectors |-> S] : S \in SUBSET CssSelectors }
    \cup { [ok |-> FALSE, selectors |-> {}] }

\* The documents that differ on the selectors of S only.
HtmlFilesFor(S) ==
    { d \in HtmlFile : \A s \in SelectorUniverse \ S : d.select[s] = "none" }

(***************************************************************************)
(* sorted(): the list of a set of strings in Python's string order.        *)
(***************************************************************************)
RECURSIVE StrLess(_, _)
StrLess(s, t) ==
    IF t = <<>> THEN FALSE
    ELSE IF s = <<>> THEN TRUE
    ELSE IF CharCode(Head(s)) # CharCode(Head(t))
         THEN CharCode(Head(s)) < CharCode(Head(t))
         ELSE StrLess(Tail(s), Tail(t))

RECURSIVE sorted(_)
sorted(S) ==
    IF S = {} THEN <<>>
    ELSE LET m == CHOOSE x \in S : \A y \in S \ {x} : StrLess(x, y)
         IN  <<m>> \o sorted(S \ {m})

\* Variant: the search without the two \b (a substring search).
get_occuring_words_Substring(words, content) ==
    { word \in words :
        \E i \in 1..(Len(content) - Len(word) + 1) :
            SubSeq(content, i, i + Len(word) - 1) = word }

(***************************************************************************)
(* get_occuring_words: re.search(r'\bWORD\b', content) for each word.      *)
(***************************************************************************)
\* \b at position p (between content[p-1] and content[p]).
WordBoundary(content, p) ==
    (p > 1 /\ content[p - 1] \in WordChars)
        # (p <= Len(content) /\ content[p] \in WordChars)

SearchWord(word, content) ==
    \E i \in 1..(Len(content) - Len(word) + 1) :
        /\ SubSeq(content, i, i + Len(word) - 1) = word
        /\ WordBoundary(content, i)
        /\ WordBoundary(content, i + Len(word))

get_occuring_words(words, content) ==
    { word \in words : SearchWord(word, content) }

(***************************************************************************)
(* REGEX_ID.findall / REGEX_CLASS.findall: after each prefix character     *)
(* ('#' or '.') that an alphanumeric follows, the longest alphanumeric run.*)
(* The prefix is not alphanumeric, so matches never overlap.               *)
(***************************************************************************)
RECURSIVE RunEnd(_, _)
RunEnd(selector, i) ==
    IF i + 1 <= Len(selector) /\ selector[i + 1] \in AlnumChars
    THEN RunEnd(selector, i + 1)
    ELSE i

RegexFindall(prefix, selector) ==
    { SubSeq(selector, i + 1, RunEnd(selector, i + 1)) :
        i \in { j \in 1..(Len(selector) - 1) :
                  selector[j] = prefix /\ selector[j + 1] \in AlnumChars } }

REGEX_ID(selector) == RegexFindall("#", selector)

REGEX_CLASS(selector) == RegexFindall(".", selector)

(***************************************************************************)
(* extract_ids_and_classes_from_selectors.  origins maps '#'+id and        *)
(* '.'+class to the selectors they were found in; the program keeps lists  *)
(* and only ever unions them into a set, so the model keeps sets.          *)
(***************************************************************************)
extract_ids_and_classes_from_selectors(selectors) ==
    LET ids == UNION { REGEX_ID(s) : s \in selectors }
        classes == UNION { REGEX_CLASS(s) : s \in selectors }
        keys == { <<"#">> \o id : id \in ids } \cup { <<".">> \o c : c \in classes }
    IN  [ ids |-> ids,
          classes |-> classes,
          origins |->
            [ k \in keys |->
                IF Head(k) = "#"
                THEN { s \in selectors : Tail(k) \in REGEX_ID(s) }
                ELSE { s \in selectors : Tail(k) \in REGEX_CLASS(s) } ] ]

\* origins[key] of the defaultdict: the empty list for a key never appended to.
OriginsGet(origins, key) ==
    IF key \in DOMAIN origins THEN origins[key] ELSE {}

\* Variant: a selector whose select raises is added as if it had matched.
get_matching_selectors_in_dom_RaiseMatches(selectors, doc) ==
    { selector \in selectors : doc.select[selector] \in {"match", "raise"} }

\* Variant: the try around the loop, so that a raising select ends the loop
\* (here: before any selector was added).
get_matching_selectors_in_dom_AbortOnRaise(selectors, doc) ==
    IF \E selector \in selectors : doc.select[selector] = "raise"
    THEN {}
    ELSE { selector \in selectors : doc.select[selector] = "match" }

(***************************************************************************)
(* get_matching_selectors_in_dom, after the file was opened and parsed:    *)
(* the selectors whose soup.select is non-empty; a selector whose select   *)
(* raises is logged and not added.                                         *)
(***************************************************************************)
get_matching_selectors_in_dom(selectors, doc) ==
    { selector \in selectors : doc.select[selector] = "match" }

\* Variant: a selector counts as used only when all its identifiers were found.
used_idclass_selectors_AllFound(origins, f_ids, f_classes) ==
    { s \in UNION { origins[k] : k \in DOMAIN origins } :
        \A k \in DOMAIN origins :
            s \in origins[k] =>
                \/ Head(k) = "#" /\ Tail(k) \in f_ids
                \/ Head(k) = "." /\ Tail(k) \in f_classes }

(***************************************************************************)
(* Lines 199-205: the selectors of the found ids and classes, and what is  *)
(* left of the candidates.                                                 *)
(***************************************************************************)
used_idclass_selectors(origins, f_ids, f_classes) ==
    UNION ( { OriginsGet(origins, <<"#">> \o id) : id \in f_ids }
            \cup { OriginsGet(origins, <<".">> \o c) : c \in f_classes } )

(***************************************************************************)
(* State.                                                                  *)
(*   css_files, html_files, src_files                                      *)
(*                        the paths collect_files returned, css_files in   *)
(*                        the order main iterates them                     *)
(*   disk_css, disk_html, disk_src                                         *)
(*                        what open() finds at a path; a path outside the  *)
(*                        domain is a file the run does not fix: each open *)
(*                        of it finds any file                             *)
(*   pc                   where the program is                             *)
(*   caller               who called the running stage: main, or a direct  *)
(*                        call of the method                               *)
(*   ci                   main's position in css_files                     *)
(*   selectors, unused_selectors, results   main's locals                  *)
(*   dom, grep            the locals of the two stage methods              *)
(*   ret                  the value the last stage call returned           *)
(***************************************************************************)
VARIABLES css_files, html_files, src_files, disk_css, disk_html, disk_src,
          pc, caller, ci, selectors, unused_selectors, results,
          dom, grep, ret

vars == << css_files, html_files, src_files, disk_css, disk_html, disk_src,
           pc, caller, ci, selectors, unused_selectors, results,
           dom, grep, ret >>

inputs == << css_files, html_files, src_files, disk_css, disk_html, disk_src, caller >>

mainLocals == << ci, selectors, unused_selectors, results >>

DomIdle == [ selectors |-> {}, unused_selectors |-> {}, next |-> 0 ]

GrepIdle ==
    [ selectors |-> {}, ids |-> {}, classes |-> {}, origins |-> <<>>,
      findable_ids |-> {}, findable_classes |-> {},
      unfindable_ids |-> {}, unfindable_classes |-> {},
      searched_ids |-> {}, searched_classes |-> {}, next |-> 0 ]

RetIdle == [ unused_selectors |-> {}, results |-> <<>> ]

Paths(n) == [ i \in 1..n |-> i ]

\* What open(path) may find.
CssAt(path) ==
    IF path \in DOMAIN disk_css THEN {disk_css[path]} ELSE CssFile

HtmlAt(path) ==
    IF path \in DOMAIN disk_html THEN {disk_html[path]} ELSE HtmlFile

SrcAt(path) ==
    IF path \in DOMAIN disk_src THEN {disk_src[path]} ELSE SrcFile

\* d[k] = v on a dict.
DictSet(d, k, v) == (k :> v) @@ d

(***************************************************************************)
(* main, lines 255-263: the next CSS file; its selectors are extracted.    *)
(* An exception of cssutils.parseFile leaves main.                         *)
(***************************************************************************)
MainExtract ==
    /\ pc = "main_loop"
    /\ ci <= Len(css_files)
    /\ \E css \in CssAt(css_files[ci]) :
          IF css.ok
          THEN /\ selectors' = css.selectors
               /\ unused_selectors' = css.selectors
               /\ results' = DictSet(results, ci,
                                     DictSet(<<>>, "selectors", css.selectors))
               /\ pc' = "dom_check"
          ELSE /\ results' = DictSet(results, ci, <<>>)
               /\ pc' = "raised"
               /\ UNCHANGED << selectors, unused_selectors >>
    /\ UNCHANGED << inputs, ci, dom, grep, ret >>

\* Variant: the DOM stage is called whether or not there are HTML files.
MainDomCall_Always ==
    /\ pc = "dom_check"
    /\ dom' = [DomIdle EXCEPT !.selectors = unused_selectors]
    /\ pc' = "dom_entry"
    /\ UNCHANGED << inputs, mainLocals, grep, ret >>

\* main, lines 269-270: the DOM stage is called when there are HTML files.
MainDomCall ==
    /\ pc = "dom_check"
    /\ IF html_files # <<>>
       THEN /\ dom' = [DomIdle EXCEPT !.selectors = unused_selectors]
            /\ pc' = "dom_entry"
       ELSE /\ pc' = "grep_check"
            /\ UNCHANGED dom
    /\ UNCHANGED << inputs, mainLocals, grep, ret >>

\* _eliminate_selectors_from_dom_matching, lines 151-154.
DomBegin ==
    /\ pc = "dom_entry"
    /\ dom' = [dom EXCEPT !.unused_selectors = dom.selectors, !.next = 1]
    /\ pc' = "dom_loop"
    /\ UNCHANGED << inputs, mainLocals, grep, ret >>

\* Variant: intersection_update in place of difference_update.
DomMatchFile_Intersection ==
    /\ pc = "dom_loop"
    /\ dom.next <= Len(html_files)
    /\ \E doc \in HtmlAt(html_files[dom.next]) :
          IF doc.ok
          THEN /\ dom' = [dom EXCEPT
                     !.unused_selectors =
                         @ \cap get_matching_selectors_in_dom(@, doc),
                     !.next = @ + 1]
               /\ pc' = "dom_loop"
          ELSE /\ pc' = "raised"
               /\ UNCHANGED dom
    /\ UNCHANGED << inputs, mainLocals, grep, ret >>

\* Lines 155-160: one HTML file.  open() raising leaves the method.
DomMatchFile ==
    /\ pc = "dom_loop"
    /\ dom.next <= Len(html_files)
    /\ \E doc \in HtmlAt(html_files[dom.next]) :
          IF doc.ok
          THEN /\ dom' = [dom EXCEPT
                     !.unused_selectors =
                         @ \ get_matching_selectors_in_dom(@, doc),
                     !.next = @ + 1]
               /\ pc' = "dom_loop"
          ELSE /\ pc' = "raised"
               /\ UNCHANGED dom
    /\ UNCHANGED << inputs, mainLocals, grep, ret >>

\* Variant: the method returns its argument, not its running set.
DomReturn_Candidates ==
    /\ pc = "dom_loop"
    /\ dom.next > Len(html_files)
    /\ ret' = [ unused_selectors |-> dom.selectors,
                results |-> DictSet(<<>>, "unused_selectors", sorted(dom.selectors)) ]
    /\ pc' = "dom_returned"
    /\ UNCHANGED << inputs, mainLocals, dom, grep >>

\* Lines 162-165.
DomReturn ==
    /\ pc = "dom_loop"
    /\ dom.next > Len(html_files)
    /\ ret' = [ unused_selectors |-> dom.unused_selectors,
                results |-> DictSet(<<>>, "unused_selectors",
                                    sorted(dom.unused_selectors)) ]
    /\ pc' = "dom_returned"
    /\ UNCHANGED << inputs, mainLocals, dom, grep >>

\* main, lines 270-271: the returned set replaces the running set.
MainAfterDom ==
    /\ pc = "dom_returned"
    /\ caller = "main"
    /\ unused_selectors' = ret.unused_selectors
    /\ results' = DictSet(results, ci,
                          DictSet(results[ci], "dom_matching", ret.results))
    /\ dom' = DomIdle
    /\ pc' = "grep_check"
    /\ UNCHANGED << inputs, ci, selectors, grep, ret >>

\* Variant: main passes all the selectors of the CSS file to the grep stage.
MainGrepCall_AllSelectors ==
    /\ pc = "grep_check"
    /\ IF src_files # <<>>
       THEN /\ grep' = [GrepIdle EXCEPT !.selectors = selectors]
            /\ pc' = "grep_entry"
       ELSE /\ pc' = "store"
            /\ UNCHANGED grep
    /\ UNCHANGED << inputs, mainLocals, dom, ret >>

\* main, lines 274-275: the grep stage is called when there are source files.
MainGrepCall ==
    /\ pc = "grep_check"
    /\ IF src_files # <<>>
       THEN /\ grep' = [GrepIdle EXCEPT !.selectors = unused_selectors]
            /\ pc' = "grep_entry"
       ELSE /\ pc' = "store"
            /\ UNCHANGED grep
    /\ UNCHANGED << inputs, mainLocals, dom, ret >>

\* _eliminate_selectors_from_idclass_grepping, lines 172-186.
GrepBegin ==
    /\ pc = "grep_entry"
    /\ LET x == extract_ids_and_classes_from_selectors(grep.selectors)
       IN  grep' = [grep EXCEPT
               !.ids = x.ids, !.classes = x.classes, !.origins = x.origins,
               !.findable_ids = {}, !.findable_classes = {},
               !.unfindable_ids = x.ids, !.unfindable_classes = x.classes,
               !.next = 1]
    /\ pc' = "grep_loop"
    /\ UNCHANGED << inputs, mainLocals, dom, ret >>

\* Variant: line 195 subtracts findable_ids from unfindable_classes.
GrepScanFile_ClassesMinusIds ==
    /\ pc = "grep_loop"
    /\ grep.next <= Len(src_files)
    /\ \E src \in SrcAt(src_files[grep.next]) :
          IF src.ok
          THEN LET f_ids == grep.findable_ids
                       \cup get_occuring_words(grep.unfindable_ids, src.content)
                   f_classes == grep.findable_classes
                       \cup get_occuring_words(grep.unfindable_classes, src.content)
               IN  /\ grep' = [grep EXCEPT
                         !.searched_ids = grep.unfindable_ids,
                         !.searched_classes = grep.unfindable_classes,
                         !.findable_ids = f_ids,
                         !.findable_classes = f_classes,
                         !.unfindable_ids = @ \ f_ids,
                         !.unfindable_classes = @ \ f_ids,
                         !.next = @ + 1]
                   /\ pc' = "grep_loop"
          ELSE /\ pc' = "raised"
               /\ UNCHANGED grep
    /\ UNCHANGED << inputs, mainLocals, dom, ret >>

\* Lines 188-195: one source file.  file_get_contents raising leaves the method.
GrepScanFile ==
    /\ pc = "grep_loop"
    /\ grep.next <= Len(src_files)
    /\ \E src \in SrcAt(src_files[grep.next]) :
          IF src.ok
          THEN LET f_ids == grep.findable_ids
                       \cup get_occuring_words(grep.unfindable_ids, src.content)
                   f_classes == grep.findable_classes
                       \cup get_occuring_words(grep.unfindable_classes, src.content)
               IN  /\ grep' = [grep EXCEPT
                         !.searched_ids = grep.unfindable_ids,
                         !.searched_classes = grep.unfindable_classes,
                         !.findable_ids = f_ids,
                         !.findable_classes = f_classes,
                         !.unfindable_ids = @ \ f_ids,
                         !.unfindable_classes = @ \ f_classes,
                         !.next = @ + 1]
                   /\ pc' = "grep_loop"
          ELSE /\ pc' = "raised"
               /\ UNCHANGED grep
    /\ UNCHANGED << inputs, mainLocals, dom, ret >>

\* Lines 196-216.
GrepReturn ==
    /\ pc = "grep_loop"
    /\ grep.next > Len(src_files)
    /\ LET used == used_idclass_selectors(grep.origins, grep.findable_ids,
                                          grep.findable_classes)
           unused == grep.selectors \ used
       IN  ret' = [ unused_selectors |-> unused,
                    results |->
                      [ ids |-> grep.ids,
                        classes |-> grep.classes,
                        unfindable_ids |-> grep.unfindable_ids,
                        unfindable_classes |-> grep.unfindable_classes,
                        unused_selectors |-> sorted(unused) ] ]
    /\ pc' = "grep_returned"
    /\ UNCHANGED << inputs, mainLocals, dom, grep >>

\* main, lines 275-276.
MainAfterGrep ==
    /\ pc = "grep_returned"
    /\ caller = "main"
    /\ unused_selectors' = ret.unused_selectors
    /\ results' = DictSet(results, ci,
                          DictSet(results[ci], "idclass_elimination", ret.results))
    /\ grep' = GrepIdle
    /\ pc' = "store"
    /\ UNCHANGED << inputs, ci, selectors, dom, ret >>

\* main, line 278, and on to the next CSS file.
MainStore ==
    /\ pc = "store"
    /\ results' = DictSet(results, ci,
                          DictSet(results[ci], "unused_selectors",
                                  sorted(unused_selectors)))
    /\ ci' = ci + 1
    /\ pc' = "main_loop"
    /\ UNCHANGED << inputs, selectors, unused_selectors, dom, grep, ret >>

\* main, lines 280-292: after the last CSS file the report is written.
MainReport ==
    /\ pc = "main_loop"
    /\ ci > Len(css_files)
    /\ pc' = "done"
    /\ UNCHANGED << inputs, mainLocals, dom, grep, ret >>

Next ==
    \/ MainExtract
    \/ MainDomCall
    \/ DomBegin
    \/ DomMatchFile
    \/ DomReturn
    \/ MainAfterDom
    \/ MainGrepCall
    \/ GrepBegin
    \/ GrepScanFile
    \/ GrepReturn
    \/ MainAfterGrep
    \/ MainStore
    \/ MainReport

MainStart ==
    /\ pc = "main_loop"
    /\ caller = "main"
    /\ ci = 1
    /\ selectors = {}
    /\ unused_selectors = {}
    /\ results = <<>>
    /\ dom = DomIdle
    /\ grep = GrepIdle
    /\ ret = RetIdle

(***************************************************************************)
(* Spec: main over up to MaxCss CSS files, MaxHtml HTML files and MaxSrc   *)
(* source files; what each file holds is found when it is opened.          *)
(***************************************************************************)
Init ==
    /\ css_files \in { Paths(n) : n \in 0..MaxCss }
    /\ html_files \in { Paths(n) : n \in 0..MaxHtml }
    /\ src_files \in { Paths(n) : n \in 0..MaxSrc }
    /\ disk_css = <<>>
    /\ disk_html = <<>>
    /\ disk_src = <<>>
    /\ MainStart

Spec == Init /\ [][Next]_vars

\* A direct call of a stage method: no frame of main below it.
DirectStart ==
    /\ caller = "direct"
    /\ css_files = <<>>
    /\ disk_css = <<>>
    /\ ci = 1
    /\ selectors = {}
    /\ unused_selectors = {}
    /\ results = <<>>
    /\ ret = RetIdle

(***************************************************************************)
(* SpecDom: the DOM stage on every candidate set and every sequence of up  *)
(* to MaxHtml documents, the documents fixed for the run; called by main   *)
(* for one CSS file, or directly.  The evaluator is only asked about       *)
(* candidates, so the documents differ on the candidates only.             *)
(***************************************************************************)
InitDom ==
    \E S \in SUBSET CssSelectors, n \in 0..MaxHtml :
        /\ html_files = Paths(n)
        /\ disk_html \in [1..n -> HtmlFilesFor(S)]
        /\ disk_src = <<>>
        /\ \/ /\ css_files = Paths(1)
              /\ disk_css = << [ok |-> TRUE, selectors |-> S] >>
              /\ src_files \in { Paths(0), Paths(1) }
              /\ MainStart
           \/ /\ DirectStart
              /\ src_files = <<>>
              /\ pc = "dom_entry"
              /\ dom = [DomIdle EXCEPT !.selectors = S]
              /\ grep = GrepIdle

SpecDom == InitDom /\ [][Next]_vars

(***************************************************************************)
(* SpecGrep: the grep stage on every candidate set and every sequence of   *)
(* up to MaxSrc source files, the files fixed for the run; called by main  *)
(* for one CSS file, or directly.                                          *)
(***************************************************************************)
InitGrep ==
    \E S \in SUBSET SelectorUniverse, n \in 0..MaxSrc :
        /\ src_files = Paths(n)
        /\ disk_src \in [1..n -> SrcFile]
        /\ disk_html = <<>>
        /\ \/ /\ css_files = Paths(1)
              /\ disk_css = << [ok |-> TRUE, selectors |-> S] >>
              /\ html_files \in { Paths(0), Paths(1) }
              /\ MainStart
           \/ /\ DirectStart
              /\ html_files = <<>>
              /\ pc = "grep_entry"
              /\ grep = [GrepIdle EXCEPT !.selectors = S]
              /\ dom = DomIdle

SpecGrep == InitGrep /\ [][Next]_vars

(***************************************************************************)
(* The two stage methods as functions of their arguments: the loops of the *)
(* actions above, run to the end.  raised: an exception left the method.   *)
(***************************************************************************)
Raised == [ raised |-> TRUE, unused_selectors |-> {} ]

Returned(unused) == [ raised |-> FALSE, unused_selectors |-> unused ]

RECURSIVE DomLoop(_, _, _)
DomLoop(unused, docs, i) ==
    IF i > Len(docs) THEN Returned(unused)
    ELSE IF ~docs[i].ok THEN Raised
    ELSE DomLoop(unused \ get_matching_selectors_in_dom(unused, docs[i]), docs, i + 1)

eliminate_selectors_from_dom_matching(candidates, docs) ==
    DomLoop(candidates, docs, 1)

RECURSIVE GrepLoop(_, _, _, _)
GrepLoop(g, candidates, texts, i) ==
    IF i > Len(texts)
    THEN Returned(candidates
                  \ used_idclass_selectors(g.origins, g.findable_ids,
                                           g.findable_classes))
    ELSE IF ~texts[i].ok THEN Raised
    ELSE LET f_ids == g.findable_ids
                 \cup get_occuring_words(g.unfindable_ids, texts[i].content)
             f_classes == g.findable_classes
                 \cup get_occuring_words(g.unfindable_classes, texts[i].content)
         IN  GrepLoop([g EXCEPT !.findable_ids = f_ids,
                                !.findable_classes = f_classes,
                                !.unfindable_ids = @ \ f_ids,
                                !.unfindable_classes = @ \ f_classes],
                      candidates, texts, i + 1)

eliminate_selectors_from_idclass_grepping(candidates, texts) ==
    LET x == extract_ids_and_classes_from_selectors(candidates)
    IN  GrepLoop([ origins |-> x.origins,
                   findable_ids |-> {}, findable_classes |-> {},
                   unfindable_ids |-> x.ids, unfindable_classes |-> x.classes ],
                 candidates, texts, 1)

\* main's order of the stages (lines 268-276), and the other order.
DomThenGrep(S, docs, texts) ==
    LET d == eliminate_selectors_from_dom_matching(S, docs)
    IN  IF d.raised THEN Raised
        ELSE eliminate_selectors_from_idclass_grepping(d.unused_selectors, texts)

GrepThenDom(S, docs, texts) ==
    LET g == eliminate_selectors_from_idclass_grepping(S, texts)
    IN  IF g.raised THEN Raised
        ELSE eliminate_selectors_from_dom_matching(g.unused_selectors, docs)

\* The files of the disk in the order of their paths.
DiskSeq(files, disk) == [ i \in 1..Len(files) |-> disk[files[i]] ]

(***************************************************************************)
(* SpecOrder: both orders of the two stages on the same selector set and   *)
(* the same files (up to MaxOrderFiles of each kind).                      *)
(***************************************************************************)
RunDomThenGrep ==
    /\ pc = "order_dom_grep"
    /\ results' = DictSet(results, "dom_then_grep",
                          DomThenGrep(selectors, DiskSeq(html_files, disk_html),
                                      DiskSeq(src_files, disk_src)))
    /\ pc' = "order_grep_dom"
    /\ UNCHANGED << inputs, ci, selectors, unused_selectors, dom, grep, ret >>

RunGrepThenDom ==
    /\ pc = "order_grep_dom"
    /\ results' = DictSet(results, "grep_then_dom",
                          GrepThenDom(selectors, DiskSeq(html_files, disk_html),
                                      DiskSeq(src_files, disk_src)))
    /\ pc' = "order_done"
    /\ UNCHANGED << inputs, ci, selectors, unused_selectors, dom, grep, ret >>

NextOrder == RunDomThenGrep \/ RunGrepThenDom

InitOrder ==
    \E S \in SUBSET SelectorUniverse, n \in 0..MaxOrderFiles, m \in 0..MaxOrderFiles :
        /\ selectors = S
        /\ html_files = Paths(n)
        /\ disk_html \in [1..n -> HtmlFilesFor(S)]
        /\ src_files = Paths(m)
        /\ disk_src \in [1..m -> SrcFile]
        /\ pc = "order_dom_grep"
        /\ caller = "direct"
        /\ css_files = <<>>
        /\ disk_css = <<>>
        /\ ci = 1
        /\ unused_selectors = {}
        /\ results = <<>>
        /\ dom = DomIdle
        /\ grep = GrepIdle
        /\ ret = RetIdle

SpecOrder == InitOrder /\ [][NextOrder]_vars

(***************************************************************************)
(* Vocabulary of the properties.                                           *)
(***************************************************************************)
\* The elements of a list.
Range(f) == { f[i] : i \in DOMAIN f }

\* The words of a text: its maximal runs of word characters.
WordsOf(text) ==
    { SubSeq(text, i, j) : <<i, j>> \in
        { ij \in (1..Len(text)) \X (1..Len(text)) :
            /\ ij[1] <= ij[2]
            /\ \A k \in ij[1]..ij[2] : text[k] \in WordChars
            /\ (ij[1] = 1 \/ text[ij[1] - 1] \notin WordChars)
            /\ (ij[2] = Len(text) \/ text[ij[2] + 1] \notin WordChars) } }

\* The identifier's exact word occurs in one of the source files of the run.
OccursInSources(word) ==
    \E i \in 1..Len(src_files) :
        disk_src[src_files[i]].ok /\ word \in WordsOf(disk_src[src_files[i]].content)

\* The id/class identifiers of a selector, with their '#' or '.'.
IdentifiersOf(selector) ==
    { <<"#">> \o id : id \in REGEX_ID(selector) }
    \cup { <<".">> \o c : c \in REGEX_CLASS(selector) }

\* The documents of the run, in the order of html_files.
Documents == DiskSeq(html_files, disk_html)

MatchesSomeDocument(selector) ==
    \E i \in 1..Len(Documents) : Documents[i].select[selector] = "match"

RaisesOnEveryDocument(selector) ==
    \A i \in 1..Len(Documents) : Documents[i].select[selector] = "raise"

\* What the stages return, and hold while they run, stays within their candidates.
StageSubset ==
    /\ pc \in {"dom_loop", "dom_returned"} => dom.unused_selectors \subseteq dom.selectors
    /\ pc = "dom_returned" => ret.unused_selectors \subseteq dom.selectors
    /\ pc = "grep_returned" => ret.unused_selectors \subseteq grep.selectors

\* A step within the run of one CSS file adds no selector.
RunShrinks ==
    /\ pc # "main_loop" => unused_selectors' \subseteq unused_selectors
    /\ pc = "dom_loop" /\ pc' = "dom_loop" =>
           dom'.unused_selectors \subseteq dom.unused_selectors
    /\ pc' = "dom_entry" => dom'.selectors \subseteq unused_selectors
    /\ pc' = "grep_entry" => grep'.selectors \subseteq unused_selectors
    /\ pc = "store" =>
           Range(results'[ci].unused_selectors) \subseteq unused_selectors

(***************************************************************************)
(* C1 (Spec).  Monotonicity: what a stage of the pipeline returns is a     *)
(* subset of the candidates it was passed, the DOM stage's running set     *)
(* only shrinks from document to document, and within one run of main for  *)
(* a CSS file the running unused set, the candidates handed to the grep    *)
(* stage and the final stored list never hold a selector that was removed  *)
(* before.                                                                 *)
(***************************************************************************)
C1_Monotonic == [][StageSubset' /\ RunShrinks]_vars

\* Both stages ran for a CSS file and each removed a selector.
C1_Witness ==
    /\ pc = "store"
    /\ "dom_matching" \in DOMAIN results[ci]
    /\ "idclass_elimination" \in DOMAIN results[ci]
    /\ unused_selectors # {}
    /\ unused_selectors # Range(results[ci]["dom_matching"]["unused_selectors"])
    /\ Range(results[ci]["dom_matching"]["unused_selectors"]) # selectors

(***************************************************************************)
(* C2 (SpecDom).  Soundness of the DOM stage: a candidate that matches a   *)
(* node in any of the documents is not in the returned set.                *)
(***************************************************************************)
C2_DomSound ==
    pc = "dom_returned" =>
        \A s \in dom.selectors :
            MatchesSomeDocument(s) => s \notin ret.unused_selectors

\* A candidate raises on the first document and matches the second only.
C2_Witness ==
    /\ pc = "dom_returned"
    /\ Len(html_files) = 2
    /\ \E s \in dom.selectors :
          /\ Documents[1].select[s] = "raise"
          /\ Documents[2].select[s] = "match"
          /\ s \notin ret.unused_selectors
    /\ ret.unused_selectors # {}

(***************************************************************************)
(* C3 (SpecGrep).  Conservative grep stage: a candidate whose only         *)
(* identifier is a word that occurs in none of the source files is in the  *)
(* returned set; a candidate is removed only when one of its own           *)
(* identifiers occurs as a whole word in some source file.                 *)
(***************************************************************************)
C3_GrepConservative ==
    pc = "grep_returned" =>
        /\ \A s \in grep.selectors : \A k \in IdentifiersOf(s) :
               IdentifiersOf(s) = {k} /\ ~OccursInSources(Tail(k))
                   => s \in ret.unused_selectors
        /\ \A s \in grep.selectors \ ret.unused_selectors :
               \E k \in IdentifiersOf(s) : OccursInSources(Tail(k))

\* "#a" stays although a file holds "ab" or "a_b", while ".b" is removed.
C3_Witness ==
    /\ pc = "grep_returned"
    /\ {SelIdA, SelClassB} \subseteq grep.selectors
    /\ SelIdA \in ret.unused_selectors
    /\ SelClassB \notin ret.unused_selectors
    /\ \E i \in 1..Len(src_files) :
          /\ disk_src[src_files[i]].ok
          /\ Len(disk_src[src_files[i]].content) > 1
          /\ disk_src[src_files[i]].content[1] = "a"

(***************************************************************************)
(* C4 (SpecGrep).  A candidate with several identifiers is removed as soon *)
(* as one of them occurs as a whole word in a source file, whether or not  *)
(* the others occur anywhere.                                              *)
(***************************************************************************)
C4_CompoundOr ==
    pc = "grep_returned" =>
        \A s \in grep.selectors :
            /\ Cardinality(IdentifiersOf(s)) > 1
            /\ \E k \in IdentifiersOf(s) : OccursInSources(Tail(k))
            => s \notin ret.unused_selectors

\* "#a .b" is removed with "a" in a source file and "b" in none.
C4_Witness ==
    /\ pc = "grep_returned"
    /\ SelCompound \in grep.selectors
    /\ OccursInSources(<<"a">>)
    /\ ~OccursInSources(<<"b">>)
    /\ SelCompound \notin ret.unused_selectors

(***************************************************************************)
(* C5 (Spec).  Per-file errors never abort the batch: no file that cannot  *)
(* be opened, read or parsed ends the run of main.                         *)
(***************************************************************************)
C5_NoAbort == pc # "raised"

(***************************************************************************)
(* C6 (SpecDom).  Evaluator errors fail open: the stage returns although   *)
(* the evaluator raised; a candidate that matches a document is removed    *)
(* even when the evaluator raised for another candidate on that document;  *)
(* a candidate on which the evaluator raises for every document is in the  *)
(* returned set, and in the candidates main hands to the grep stage.       *)
(***************************************************************************)
C6_FailOpen ==
    /\ pc = "dom_returned" =>
           \A s \in dom.selectors :
               /\ RaisesOnEveryDocument(s) => s \in ret.unused_selectors
               /\ \A i \in 1..Len(Documents) :
                      Documents[i].select[s] = "raise" =>
                          \A t \in dom.selectors :
                              Documents[i].select[t] = "match"
                                  => t \notin ret.unused_selectors
    /\ pc = "grep_entry" /\ caller = "main" =>
           \A s \in selectors : RaisesOnEveryDocument(s) => s \in grep.selectors

\* main reaches the grep stage with a selector that raised on both documents,
\* another selector having matched one of them.
C6_Witness ==
    /\ pc = "grep_entry"
    /\ Len(html_files) = 2
    /\ \E s \in selectors, t \in selectors :
          /\ RaisesOnEveryDocument(s)
          /\ Documents[2].select[t] = "match"
          /\ Documents[1].select[t] = "none"
          /\ s \in grep.selectors
          /\ t \notin grep.selectors

(***************************************************************************)
(* C7 (SpecOrder).  The order of the stages does not change the outcome:   *)
(* the DOM stage followed by the grep stage ends as the grep stage         *)
(* followed by the DOM stage.                                              *)
(***************************************************************************)
C7_OrderIrrelevant ==
    pc = "order_done" => results["dom_then_grep"] = results["grep_then_dom"]

\* Of all four selectors the document matches "a", the source clears the two
\* selectors with class b, and "#a" is left.
C7_Witness ==
    /\ pc = "order_done"
    /\ selectors = SelectorUniverse
    /\ Len(html_files) = 1
    /\ Documents[1].select[SelElemA] = "match"
    /\ Documents[1].select[SelCompound] = "raise"
    /\ results["grep_then_dom"] = Returned({SelIdA})

(***************************************************************************)
(* C8 (Spec).  No-input stability: with no HTML file and no source file    *)
(* neither stage runs, no stage diagnostics are recorded, and the          *)
(* unused_selectors stored for a CSS file are exactly its selectors.       *)
(***************************************************************************)
C8_NoInputStable ==
    html_files = <<>> /\ src_files = <<>> =>
        /\ pc \in {"main_loop", "dom_check", "grep_check", "store", "done", "raised"}
        /\ \A i \in DOMAIN results :
               /\ DOMAIN results[i] \subseteq {"selectors", "unused_selectors"}
               /\ "unused_selectors" \in DOMAIN results[i] =>
                      /\ Range(results[i]["unused_selectors"]) = results[i]["selectors"]
                      /\ Len(results[i]["unused_selectors"])
                             = Cardinality(results[i]["selectors"])

\* A CSS file with three selectors was reported without any input.
C8_Witness ==
    /\ pc = "done"
    /\ html_files = <<>>
    /\ src_files = <<>>
    /\ Len(css_files) = 1
    /\ results[1]["unused_selectors"] = <<SelCompound, SelClassB, SelElemA>>

(***************************************************************************)
(* C9 (SpecDom).  The shrinking candidate set is only an optimisation: the *)
(* returned set is the candidates minus the union, over the documents, of  *)
(* the candidates that match the document when it is evaluated against all *)
(* the candidates; the documents in any other order give the same set.     *)
(***************************************************************************)
C9_ShrinkIsOptimisation ==
    pc = "dom_returned" =>
        /\ ret.unused_selectors =
               dom.selectors
               \ UNION { get_matching_selectors_in_dom(dom.selectors, Documents[i]) :
                           i \in 1..Len(Documents) }
        /\ \A p \in Permutations(1..Len(Documents)) :
               eliminate_selectors_from_dom_matching(
                   dom.selectors, [ i \in 1..Len(Documents) |-> Documents[p[i]] ])
                 = Returned(ret.unused_selectors)

\* The second document was evaluated against fewer candidates than the first,
\* and matches one the first had removed as well as one it had not.
C9_Witness ==
    /\ pc = "dom_returned"
    /\ Len(html_files) = 2
    /\ Documents[1] # Documents[2]
    /\ \E s \in dom.selectors, t \in dom.selectors :
          /\ Documents[1].select[s] = "match"
          /\ Documents[2].select[s] = "match"
          /\ Documents[1].select[t] # "match"
          /\ Documents[2].select[t] = "match"
    /\ ret.unused_selectors # {}

\* The found and the unfindable identifiers partition the extracted ones.
Partition ==
    /\ pc \in {"grep_loop", "grep_returned"} =>
           /\ grep.findable_ids \cap grep.unfindable_ids = {}
           /\ grep.findable_ids \cup grep.unfindable_ids = grep.ids
           /\ grep.findable_classes \cap grep.unfindable_classes = {}
           /\ grep.findable_classes \cup grep.unfindable_classes = grep.classes
           /\ grep.ids = UNION { REGEX_ID(s) : s \in grep.selectors }
           /\ grep.classes = UNION { REGEX_CLASS(s) : s \in grep.selectors }
    /\ pc = "grep_returned" =>
           /\ grep.unfindable_ids = { w \in grep.ids : ~OccursInSources(w) }
           /\ grep.unfindable_classes = { w \in grep.classes : ~OccursInSources(w) }
           /\ ret.results.unfindable_ids = grep.unfindable_ids
           /\ ret.results.unfindable_classes = grep.unfindable_classes

\* One more source file: nothing found is lost or searched again.
FoundStaysFound ==
    pc = "grep_loop" /\ pc' = "grep_loop" =>
        /\ grep.findable_ids \subseteq grep'.findable_ids
        /\ grep.findable_classes \subseteq grep'.findable_classes
        /\ grep'.unfindable_ids \subseteq grep.unfindable_ids
        /\ grep'.unfindable_classes \subseteq grep.unfindable_classes
        /\ grep'.searched_ids \cap grep.findable_ids = {}
        /\ grep'.searched_classes \cap grep.findable_classes = {}

(***************************************************************************)
(* C10 (SpecGrep).  Found/unfindable partition: after each source file the *)
(* findable and the unfindable ids are disjoint and together the extracted *)
(* ids, and so for the classes; a found identifier stays found and is not  *)
(* searched for in a later file; at the end the unfindable identifiers are *)
(* those that occur as a whole word in none of the source files.           *)
(***************************************************************************)
C10_Partition == [][Partition' /\ FoundStaysFound]_vars

\* The first file held the id, the second the class: the second file was
\* searched for the class only.
C10_Witness ==
    /\ pc = "grep_loop"
    /\ grep.next = 3
    /\ grep.ids = {<<"a">>}
    /\ grep.classes = {<<"b">>}
    /\ grep.searched_ids = {}
    /\ grep.searched_classes = {<<"b">>}
    /\ grep.unfindable_classes = {}

=============================================================================
